---- MODULE Spec2Model ----
(***************************************************************************)
(* A model of package netdb (github.com/thediveo/netdb): the three index   *)
(* structures (ProtocolIndex, ServiceIndex, EtherTypeIndex) with Merge,    *)
(* MergeIndex and the lookups, the process-wide default indexes with their *)
(* lazy initialisation, and the line parsers.                              *)
(*                                                                         *)
(* Go values are modelled as follows.                                      *)
(*   - A pointer to a record (&protos[idx]) is the record itself with the  *)
(*     additional field ref, the identity of the slice element; Nil is the *)
(*     nil pointer.                                                        *)
(*   - A map is [nil |-> BOOLEAN, m |-> function]: the nil map reads as    *)
(*     the empty map and panics on assignment.                             *)
(*   - A call that writes to maps threads a frame [.., panic |-> BOOLEAN]  *)
(*     through its assignments in program order; the first assignment to a *)
(*     nil map sets panic and nothing after it is executed.                *)
(***************************************************************************)
EXTENDS Integers, Sequences, FiniteSets, TLC

VARIABLES
    sidx,       \* a ServiceIndex value owned by the caller
    pidx,       \* a ProtocolIndex value owned by the caller
    eidx,       \* an EtherTypeIndex value owned by the caller
    smerged,    \* the Service records handed to NewServiceIndex/Merge of sidx, in order
    pmerged,    \* the same for pidx
    emerged,    \* the same for eidx
    absorbed,   \* the kinds whose caller-owned index has had a MergeIndex
    Services,   \* var Services ServiceIndex
    Protocols,  \* var Protocols ProtocolIndex
    EtherTypes, \* var EtherTypes EtherTypeIndex
    builds,     \* how often each default index was built from the builtin data
    nextRef,    \* the identity of the next slice element the caller allocates
    last,       \* the most recent call: its name, arguments, prior state and result
    panicked,   \* a call has panicked (the goroutine has crashed)
    input,      \* the stream handed to a parser
    output,     \* what the parser returned
    calls       \* the calls of ProtocolByName that goroutines are in

vars == <<sidx, pidx, eidx, smerged, pmerged, emerged, absorbed, Services,
          Protocols, EtherTypes, builds, nextRef, last, panicked, input, output,
          calls>>

idxVars == <<sidx, pidx, eidx, smerged, pmerged, emerged, absorbed>>
defVars == <<Services, Protocols, EtherTypes, builds>>
parseVars == <<input, output>>

(***************************************************************************)
(* Bounds.                                                                 *)
(***************************************************************************)
MaxRecs == 2    \* slice elements the caller allocates in one behaviour
MaxList == 2    \* length of a record list handed to one call

(***************************************************************************)
(* Go maps and pointers.                                                   *)
(***************************************************************************)
Nil == [ref |-> 0]

NilMap == [nil |-> TRUE, m |-> <<>>]

MakeMap == [nil |-> FALSE, m |-> <<>>]

Has(mp, k) == k \in DOMAIN mp.m

Get(mp, k) == IF k \in DOMAIN mp.m THEN mp.m[k] ELSE Nil

Keys(mp) == DOMAIN mp.m

\* A faulty assignment: an existing binding is kept.
AssignKeepsExisting(fr, field, k, v) ==
    IF fr.panic THEN fr
    ELSE IF fr[field].nil THEN [fr EXCEPT !.panic = TRUE]
    ELSE [fr EXCEPT ![field] = [nil |-> FALSE, m |-> fr[field].m @@ (k :> v)]]

\* mp[k] = v as one statement of a call whose frame is fr; field names the map.
Assign(fr, field, k, v) ==
    IF fr.panic THEN fr
    ELSE IF fr[field].nil THEN [fr EXCEPT !.panic = TRUE]
    ELSE [fr EXCEPT ![field] = [nil |-> FALSE, m |-> (k :> v) @@ fr[field].m]]

(***************************************************************************)
(* Services.                                                               *)
(***************************************************************************)
ServiceProtocol(name, protocol) == [Name |-> name, Protocol |-> protocol]

ServicePort(port, protocol) == [Port |-> port, Protocol |-> protocol]

Service(ref, name, port, protocolName, protocol, aliases) ==
    [ref |-> ref, Name |-> name, Port |-> port, ProtocolName |-> protocolName,
     Protocol |-> protocol, Aliases |-> aliases]

ServiceIndex(names, ports) == [Names |-> names, Ports |-> ports]

ZeroServiceIndex == ServiceIndex(NilMap, NilMap)

ServiceFrame(i) == [Names |-> i.Names, Ports |-> i.Ports, panic |-> FALSE]

\* A faulty registration of the transport-agnostic key: without the presence test.
AssignAlways(fr, field, k, v) == Assign(fr, field, k, v)

\* Only the first transport-agnostic instance is registered.
AssignIfAbsent(fr, field, k, v) ==
    IF fr.panic \/ Has(fr[field], k) THEN fr ELSE Assign(fr, field, k, v)

RECURSIVE ServiceMergeAliases(_, _, _)
ServiceMergeAliases(fr, service, n) ==
    IF n > Len(service.Aliases) THEN fr
    ELSE LET alias == service.Aliases[n]
             f1 == AssignIfAbsent(fr, "Names", ServiceProtocol(alias, ""), service)
             f2 == Assign(f1, "Names", ServiceProtocol(alias, service.ProtocolName), service)
         IN  ServiceMergeAliases(f2, service, n + 1)

\* A faulty loop body: the port is registered for its protocol only.
ServiceMergeRecordNoAnyPort(fr, service) ==
    LET f1 == AssignIfAbsent(fr, "Names", ServiceProtocol(service.Name, ""), service)
        f2 == Assign(f1, "Names", ServiceProtocol(service.Name, service.ProtocolName), service)
        f3 == ServiceMergeAliases(f2, service, 1)
    IN  Assign(f3, "Ports", ServicePort(service.Port, service.ProtocolName), service)

\* The body of the loop of ServiceIndex.Merge for one element of the list.
ServiceMergeRecord(fr, service) ==
    LET f1 == AssignIfAbsent(fr, "Names", ServiceProtocol(service.Name, ""), service)
        f2 == Assign(f1, "Names", ServiceProtocol(service.Name, service.ProtocolName), service)
        f3 == ServiceMergeAliases(f2, service, 1)
        f4 == AssignIfAbsent(f3, "Ports", ServicePort(service.Port, ""), service)
    IN  Assign(f4, "Ports", ServicePort(service.Port, service.ProtocolName), service)

RECURSIVE ServiceMergeFrom(_, _, _)
ServiceMergeFrom(fr, services, n) ==
    IF n > Len(services) THEN fr
    ELSE ServiceMergeFrom(ServiceMergeRecord(fr, services[n]), services, n + 1)

ServiceMerge(i, services) == ServiceMergeFrom(ServiceFrame(i), services, 1)

NewServiceIndex(services) == ServiceMerge(ServiceIndex(MakeMap, MakeMap), services)

\* A faulty range copy: a key the receiver already has keeps its binding.
CopyAbsent(fr, field, src) ==
    IF fr.panic \/ Keys(src) = {} THEN fr
    ELSE IF fr[field].nil THEN [fr EXCEPT !.panic = TRUE]
    ELSE [fr EXCEPT ![field] =
            [nil |-> FALSE,
             m |-> [k \in Keys(src) \cup Keys(fr[field]) |->
                      IF k \in Keys(fr[field]) THEN fr[field].m[k] ELSE src.m[k]]]]

\* for k, v := range src.m { fr[field][k] = v }: the keys are distinct, so the
\* order of the range does not show in the result; an empty range assigns nothing.
CopyAll(fr, field, src) ==
    IF fr.panic \/ Keys(src) = {} THEN fr
    ELSE IF fr[field].nil THEN [fr EXCEPT !.panic = TRUE]
    ELSE [fr EXCEPT ![field] =
            [nil |-> FALSE,
             m |-> [k \in Keys(src) \cup Keys(fr[field]) |->
                      IF k \in Keys(src) THEN src.m[k] ELSE fr[field].m[k]]]]

ServiceMergeIndex(i, si) ==
    CopyAll(CopyAll(ServiceFrame(i), "Names", si.Names), "Ports", si.Ports)

\* A faulty lookup: a name unknown for the protocol is looked up for any.
ServiceIndexByNameFallback(i, name, protocol) ==
    IF Has(i.Names, ServiceProtocol(name, protocol))
    THEN Get(i.Names, ServiceProtocol(name, protocol))
    ELSE Get(i.Names, ServiceProtocol(name, ""))

ServiceIndexByName(i, name, protocol) == Get(i.Names, ServiceProtocol(name, protocol))

ServiceIndexByPort(i, port, protocol) == Get(i.Ports, ServicePort(port, protocol))

(***************************************************************************)
(* Protocols.                                                              *)
(***************************************************************************)
Protocol(ref, name, number, aliases) ==
    [ref |-> ref, Name |-> name, Number |-> number, Aliases |-> aliases]

ProtocolIndex(names, numbers) == [Names |-> names, Numbers |-> numbers]

ZeroProtocolIndex == ProtocolIndex(NilMap, NilMap)

NumberFrame(i) == [Names |-> i.Names, Numbers |-> i.Numbers, panic |-> FALSE]

RECURSIVE ProtocolMergeAliases(_, _, _)
ProtocolMergeAliases(fr, proto, n) ==
    IF n > Len(proto.Aliases) THEN fr
    ELSE ProtocolMergeAliases(Assign(fr, "Names", proto.Aliases[n], proto), proto, n + 1)

\* The body of the loop of ProtocolIndex.Merge for one element of the list.
ProtocolMergeRecord(fr, proto) ==
    LET f1 == Assign(fr, "Names", proto.Name, proto)
        f2 == ProtocolMergeAliases(f1, proto, 1)
    IN  Assign(f2, "Numbers", proto.Number, proto)

\* A faulty loop: the name and the number of every element are bound to the
\* address of one variable, which holds the last element when the loop ends.
RECURSIVE ProtocolMergeFromLoopVar(_, _, _)
ProtocolMergeFromLoopVar(fr, protos, n) ==
    IF n > Len(protos) THEN fr
    ELSE LET held == protos[Len(protos)]
             f1 == Assign(fr, "Names", protos[n].Name, held)
             f2 == Assign(f1, "Numbers", protos[n].Number, held)
         IN  ProtocolMergeFromLoopVar(f2, protos, n + 1)

RECURSIVE ProtocolMergeFrom(_, _, _)
ProtocolMergeFrom(fr, protos, n) ==
    IF n > Len(protos) THEN fr
    ELSE ProtocolMergeFrom(ProtocolMergeRecord(fr, protos[n]), protos, n + 1)

ProtocolMerge(i, protos) == ProtocolMergeFrom(NumberFrame(i), protos, 1)

NewProtocolIndex(protos) == ProtocolMerge(ProtocolIndex(MakeMap, MakeMap), protos)

\* A faulty MergeIndex: the second loop is missing.
ProtocolMergeIndexNamesOnly(i, pi) == CopyAll(NumberFrame(i), "Names", pi.Names)

ProtocolMergeIndex(i, pi) ==
    CopyAll(CopyAll(NumberFrame(i), "Names", pi.Names), "Numbers", pi.Numbers)

(***************************************************************************)
(* EtherTypes.                                                             *)
(***************************************************************************)
EtherType(ref, name, number, aliases, comment) ==
    [ref |-> ref, Name |-> name, Number |-> number, Aliases |-> aliases,
     Comment |-> comment]

EtherTypeIndex(names, numbers) == [Names |-> names, Numbers |-> numbers]

ZeroEtherTypeIndex == EtherTypeIndex(NilMap, NilMap)

RECURSIVE EtherTypeMergeAliases(_, _, _)
EtherTypeMergeAliases(fr, ethertype, n) ==
    IF n > Len(ethertype.Aliases) THEN fr
    ELSE EtherTypeMergeAliases(Assign(fr, "Names", ethertype.Aliases[n], ethertype),
                               ethertype, n + 1)

\* The body of the loop of EtherTypeIndex.Merge for one element of the list.
EtherTypeMergeRecord(fr, ethertype) ==
    LET f1 == Assign(fr, "Names", ethertype.Name, ethertype)
        f2 == EtherTypeMergeAliases(f1, ethertype, 1)
    IN  Assign(f2, "Numbers", ethertype.Number, ethertype)

RECURSIVE EtherTypeMergeFrom(_, _, _)
EtherTypeMergeFrom(fr, ethertypes, n) ==
    IF n > Len(ethertypes) THEN fr
    ELSE EtherTypeMergeFrom(EtherTypeMergeRecord(fr, ethertypes[n]), ethertypes, n + 1)

EtherTypeMerge(i, ethertypes) == EtherTypeMergeFrom(NumberFrame(i), ethertypes, 1)

NewEtherTypeIndex(ethertypes) ==
    EtherTypeMerge(EtherTypeIndex(MakeMap, MakeMap), ethertypes)

EtherTypeMergeIndex(i, eti) ==
    CopyAll(CopyAll(NumberFrame(i), "Names", eti.Names), "Numbers", eti.Numbers)

(***************************************************************************)
(* The records a caller hands to the index operations.  Names, aliases and *)
(* protocol names are tokens of a line, hence non-empty.                   *)
(***************************************************************************)
ServiceShapes ==
    { Service(0, "crash", p, pn, Nil, a) :
        p \in {666, 53}, pn \in {"foobar", "baz"}, a \in {<<>>, <<"burn">>} }
    \cup { Service(0, "burn", p, pn, Nil, <<>>) :
        p \in {666, 53}, pn \in {"foobar", "baz"} }

ProtocolShapes ==
    { Protocol(0, "tcp", x, a) : x \in {6, 17}, a \in {<<>>, <<"udp">>} }
    \cup { Protocol(0, "udp", x, <<>>) : x \in {6, 17} }

EtherTypeShapes ==
    { EtherType(0, "IPv4", x, a, "") : x \in {2048, 33024}, a \in {<<>>, <<"dot1q">>} }
    \cup { EtherType(0, "dot1q", x, <<>>, "") : x \in {2048, 33024} }

\* The lists of min to max fresh slice elements with the given shapes; the
\* element at position k of a list gets the identity first + k - 1.
FreshListsFrom(shapes, first, min, max) ==
    UNION { { [k \in 1..n |-> [f[k] EXCEPT !.ref = first + k - 1]] :
                f \in [1..n -> shapes] } : n \in min..max }

FreshLists(shapes, first, max) == FreshListsFrom(shapes, first, 0, max)

Min(a, b) == IF a < b THEN a ELSE b

ServiceIndexOf(fr) == ServiceIndex(fr.Names, fr.Ports)

NumberIndexOf(fr) == [Names |-> fr.Names, Numbers |-> fr.Numbers]

\* A call: its name, the receiver (or default index) before it, its argument
\* and what it returned.
Call(op, pre, arg, res) == [op |-> op, pre |-> pre, arg |-> arg, res |-> res]

(***************************************************************************)
(* The state after construction: the caller-owned indexes are fresh, the   *)
(* process-wide default indexes are zero values.                           *)
(***************************************************************************)
Goroutines == {1, 2}

\* A goroutine that is in no call: pc is where it stands, name the argument,
\* saw what its test of the index found, pending the fields of Protocols it
\* has yet to store, res what it returned and n the calls it has made.
NotCalling ==
    [pc |-> "idle", name |-> "", saw |-> FALSE, pending |-> {}, res |-> Nil, n |-> 0]

Constructed ==
    /\ calls = [of |-> [g \in Goroutines |-> NotCalling], overlapped |-> FALSE]
    /\ sidx = ServiceIndexOf(NewServiceIndex(<<>>))
    /\ pidx = NumberIndexOf(NewProtocolIndex(<<>>))
    /\ eidx = NumberIndexOf(NewEtherTypeIndex(<<>>))
    /\ smerged = <<>>
    /\ pmerged = <<>>
    /\ emerged = <<>>
    /\ absorbed = {}
    /\ Services = ZeroServiceIndex
    /\ Protocols = ZeroProtocolIndex
    /\ EtherTypes = ZeroEtherTypeIndex
    /\ builds = [k \in {"Services", "Protocols", "EtherTypes"} |-> 0]
    /\ nextRef = 1
    /\ last = Call("init", <<>>, <<>>, Nil)
    /\ panicked = FALSE
    /\ output = <<>>

InitBase == Constructed /\ input = <<>>

(***************************************************************************)
(* Calls on the caller-owned ServiceIndex.                                 *)
(***************************************************************************)
SvcNew(services) ==
    LET fr == NewServiceIndex(services) IN
    /\ ~panicked
    /\ sidx' = ServiceIndexOf(fr)
    /\ panicked' = fr.panic
    /\ smerged' = services
    /\ absorbed' = absorbed \ {"Services"}
    /\ nextRef' = nextRef + Len(services)
    /\ last' = Call("NewServiceIndex", <<>>, services, Nil)
    /\ UNCHANGED <<pidx, eidx, pmerged, emerged, defVars, parseVars, calls>>

SvcMerge(services) ==
    LET fr == ServiceMerge(sidx, services) IN
    /\ ~panicked
    /\ sidx' = ServiceIndexOf(fr)
    /\ panicked' = fr.panic
    /\ smerged' = smerged \o services
    /\ nextRef' = nextRef + Len(services)
    /\ last' = Call("ServiceIndex.Merge", sidx, services, Nil)
    /\ UNCHANGED <<pidx, eidx, pmerged, emerged, absorbed, defVars, parseVars, calls>>

SvcMergeIndex(services) ==
    LET si == ServiceIndexOf(NewServiceIndex(services))
        fr == ServiceMergeIndex(sidx, si) IN
    /\ ~panicked
    /\ sidx' = ServiceIndexOf(fr)
    /\ panicked' = fr.panic
    /\ absorbed' = absorbed \cup {"Services"}
    /\ nextRef' = nextRef + Len(services)
    /\ last' = Call("ServiceIndex.MergeIndex", sidx, si, Nil)
    /\ UNCHANGED <<pidx, eidx, smerged, pmerged, emerged, defVars, parseVars, calls>>

SvcByName(name, protocol) ==
    /\ ~panicked
    /\ last' = Call("ServiceIndex.ByName", sidx, <<name, protocol>>,
                    ServiceIndexByName(sidx, name, protocol))
    /\ UNCHANGED <<idxVars, defVars, parseVars, nextRef, panicked, calls>>

SvcByPort(port, protocol) ==
    /\ ~panicked
    /\ last' = Call("ServiceIndex.ByPort", sidx, <<port, protocol>>,
                    ServiceIndexByPort(sidx, port, protocol))
    /\ UNCHANGED <<idxVars, defVars, parseVars, nextRef, panicked, calls>>

MaxSvcRecs == 2  \* slice elements allocated in one behaviour of SpecSvc

LookupNames == {"crash", "burn", "frotz"}
LookupPorts == {666, 12345}
LookupProtocols == {"", "foobar", "baz"}

SvcLists == FreshLists(ServiceShapes, nextRef, Min(MaxList, MaxSvcRecs + 1 - nextRef))

NextSvc ==
    \/ \E l \in SvcLists : SvcNew(l)
    \/ \E l \in SvcLists : SvcMerge(l)
    \/ \E l \in SvcLists : SvcMergeIndex(l)
    \/ \E n \in LookupNames, p \in LookupProtocols : SvcByName(n, p)
    \/ \E n \in LookupPorts, p \in LookupProtocols : SvcByPort(n, p)

SpecSvc == InitBase /\ [][NextSvc]_vars

(***************************************************************************)
(* Calls on the caller-owned ProtocolIndex and EtherTypeIndex.             *)
(***************************************************************************)
ProtoNew(protos) ==
    LET fr == NewProtocolIndex(protos) IN
    /\ ~panicked
    /\ pidx' = NumberIndexOf(fr)
    /\ panicked' = fr.panic
    /\ pmerged' = protos
    /\ absorbed' = absorbed \ {"Protocols"}
    /\ nextRef' = nextRef + Len(protos)
    /\ last' = Call("NewProtocolIndex", <<>>, protos, Nil)
    /\ UNCHANGED <<sidx, eidx, smerged, emerged, defVars, parseVars, calls>>

ProtoMerge(protos) ==
    LET fr == ProtocolMerge(pidx, protos) IN
    /\ ~panicked
    /\ pidx' = NumberIndexOf(fr)
    /\ panicked' = fr.panic
    /\ pmerged' = pmerged \o protos
    /\ nextRef' = nextRef + Len(protos)
    /\ last' = Call("ProtocolIndex.Merge", pidx, protos, Nil)
    /\ UNCHANGED <<sidx, eidx, smerged, emerged, absorbed, defVars, parseVars, calls>>

ProtoMergeIndex(protos) ==
    LET pi == NumberIndexOf(NewProtocolIndex(protos))
        fr == ProtocolMergeIndex(pidx, pi) IN
    /\ ~panicked
    /\ pidx' = NumberIndexOf(fr)
    /\ panicked' = fr.panic
    /\ absorbed' = absorbed \cup {"Protocols"}
    /\ nextRef' = nextRef + Len(protos)
    /\ last' = Call("ProtocolIndex.MergeIndex", pidx, pi, Nil) @@ [from |-> protos]
    /\ UNCHANGED <<sidx, eidx, smerged, pmerged, emerged, defVars, parseVars, calls>>

EtherNew(ethertypes) ==
    LET fr == NewEtherTypeIndex(ethertypes) IN
    /\ ~panicked
    /\ eidx' = NumberIndexOf(fr)
    /\ panicked' = fr.panic
    /\ emerged' = ethertypes
    /\ absorbed' = absorbed \ {"EtherTypes"}
    /\ nextRef' = nextRef + Len(ethertypes)
    /\ last' = Call("NewEtherTypeIndex", <<>>, ethertypes, Nil)
    /\ UNCHANGED <<sidx, pidx, smerged, pmerged, defVars, parseVars, calls>>

EtherMerge(ethertypes) ==
    LET fr == EtherTypeMerge(eidx, ethertypes) IN
    /\ ~panicked
    /\ eidx' = NumberIndexOf(fr)
    /\ panicked' = fr.panic
    /\ emerged' = emerged \o ethertypes
    /\ nextRef' = nextRef + Len(ethertypes)
    /\ last' = Call("EtherTypeIndex.Merge", eidx, ethertypes, Nil)
    /\ UNCHANGED <<sidx, pidx, smerged, pmerged, absorbed, defVars, parseVars, calls>>

EtherMergeIndex(ethertypes) ==
    LET eti == NumberIndexOf(NewEtherTypeIndex(ethertypes))
        fr == EtherTypeMergeIndex(eidx, eti) IN
    /\ ~panicked
    /\ eidx' = NumberIndexOf(fr)
    /\ panicked' = fr.panic
    /\ absorbed' = absorbed \cup {"EtherTypes"}
    /\ nextRef' = nextRef + Len(ethertypes)
    /\ last' = Call("EtherTypeIndex.MergeIndex", eidx, eti, Nil) @@ [from |-> ethertypes]
    /\ UNCHANGED <<sidx, pidx, smerged, pmerged, emerged, defVars, parseVars, calls>>

Room == Min(MaxList, MaxRecs + 1 - nextRef)

NextIdx ==
    \/ \E l \in FreshLists(ServiceShapes, nextRef, Room) : SvcNew(l)
    \/ \E l \in FreshListsFrom(ServiceShapes, nextRef, 1, Room) : SvcMerge(l)
    \/ \E l \in FreshListsFrom(ServiceShapes, nextRef, 1, Room) : SvcMergeIndex(l)
    \/ \E l \in FreshLists(ProtocolShapes, nextRef, Room) : ProtoNew(l)
    \/ \E l \in FreshListsFrom(ProtocolShapes, nextRef, 1, Room) : ProtoMerge(l)
    \/ \E l \in FreshListsFrom(ProtocolShapes, nextRef, 1, Room) : ProtoMergeIndex(l)
    \/ \E l \in FreshLists(EtherTypeShapes, nextRef, Room) : EtherNew(l)
    \/ \E l \in FreshListsFrom(EtherTypeShapes, nextRef, 1, Room) : EtherMerge(l)
    \/ \E l \in FreshListsFrom(EtherTypeShapes, nextRef, 1, Room) : EtherMergeIndex(l)

SpecIdx == InitBase /\ [][NextIdx]_vars

(***************************************************************************)
(* The builtin data (an excerpt) and the package-level lookups through the *)
(* process-wide default indexes.                                           *)
(***************************************************************************)
BuiltinProtocols ==
    << Protocol(101, "tcp", 6, <<"TCP">>), Protocol(102, "udp", 17, <<"UDP">>) >>

BuiltinServices ==
    << Service(111, "domain", 53, "tcp", BuiltinProtocols[1], <<>>),
       Service(112, "domain", 53, "udp", BuiltinProtocols[2], <<>>) >>

BuiltinEtherTypes ==
    << EtherType(121, "IPv4", 2048, <<"ip">>, ""),
       EtherType(122, "dot1q", 33024, <<>>, "") >>

\* What a package-level function leaves in the default index (def), what it
\* returns (res) and whether it has built the index from the builtin data.
Looked(def, res, built) == [def |-> def, res |-> res, built |-> built]

\* A faulty lazy initialisation: the index is built on every call.
ProtocolByNameAlwaysBuilds(P, name) ==
    LET P1 == NumberIndexOf(NewProtocolIndex(BuiltinProtocols))
    IN  Looked(P1, Get(P1.Names, name), TRUE)

ProtocolByName(P, name) ==
    LET lazy == P.Numbers.nil
        P1 == IF lazy THEN NumberIndexOf(NewProtocolIndex(BuiltinProtocols)) ELSE P
    IN  Looked(P1, Get(P1.Names, name), lazy)

ProtocolByNumber(P, number) ==
    LET lazy == P.Numbers.nil
        P1 == IF lazy THEN NumberIndexOf(NewProtocolIndex(BuiltinProtocols)) ELSE P
    IN  Looked(P1, Get(P1.Numbers, number), lazy)

\* A different lazy initialisation: the index is built when it holds no name.
ServiceByNameWhenEmpty(S, name, protocol) ==
    LET lazy == Keys(S.Names) = {}
        S1 == IF lazy THEN ServiceIndexOf(NewServiceIndex(BuiltinServices)) ELSE S
    IN  Looked(S1, ServiceIndexByName(S1, name, protocol), lazy)

ServiceByName(S, name, protocol) ==
    LET lazy == S.Names.nil
        S1 == IF lazy THEN ServiceIndexOf(NewServiceIndex(BuiltinServices)) ELSE S
    IN  Looked(S1, ServiceIndexByName(S1, name, protocol), lazy)

ServiceByPort(S, port, protocol) ==
    LET lazy == S.Names.nil
        S1 == IF lazy THEN ServiceIndexOf(NewServiceIndex(BuiltinServices)) ELSE S
    IN  Looked(S1, ServiceIndexByPort(S1, port, protocol), lazy)

EtherTypeByName(E, name) ==
    LET lazy == E.Numbers.nil
        E1 == IF lazy THEN NumberIndexOf(NewEtherTypeIndex(BuiltinEtherTypes)) ELSE E
    IN  Looked(E1, Get(E1.Names, name), lazy)

EtherTypeByNumber(E, number) ==
    LET lazy == E.Numbers.nil
        E1 == IF lazy THEN NumberIndexOf(NewEtherTypeIndex(BuiltinEtherTypes)) ELSE E
    IN  Looked(E1, Get(E1.Numbers, number), lazy)

(***************************************************************************)
(* The caller's side of the default indexes: the records of its files, the *)
(* index values it assigns, and its calls.                                 *)
(***************************************************************************)
MaxFileRecs == 1    \* slice elements allocated in one behaviour of SpecDef

FileProtocolShapes ==
    { Protocol(0, "tcp", 6, <<"mytcp">>), Protocol(0, "sctp", 132, <<>>) }

FileServiceShapes ==
    { Service(0, "domain", 53, "udp", BuiltinProtocols[2], <<"dns">>),
      Service(0, "crash", 666, "tcp", BuiltinProtocols[1], <<>>) }

FileEtherTypeShapes ==
    { EtherType(0, "IPv4", 2048, <<"myip">>, "mine"), EtherType(0, "test", 36864, <<>>, "") }

FileRoom == Min(MaxList, MaxFileRecs + 1 - nextRef)

FileLists(shapes) == FreshLists(shapes, nextRef, FileRoom)

\* The values a caller stores in a default index: the zero value, an index a
\* constructor returned, or a struct literal with one of the two maps.
NumberIndexValues(built) ==
    { [Names |-> NilMap, Numbers |-> NilMap], built }
    \cup (IF Keys(built.Names) = {} THEN {}
          ELSE { [Names |-> built.Names, Numbers |-> NilMap],
                 [Names |-> NilMap, Numbers |-> built.Numbers] })

ServiceIndexValues(built) ==
    { ZeroServiceIndex, built }
    \cup (IF Keys(built.Names) = {} THEN {}
          ELSE { ServiceIndex(built.Names, NilMap), ServiceIndex(NilMap, built.Ports) })

Reset(k) == [builds EXCEPT ![k] = 0]

Built(k, looked) == IF looked.built THEN [builds EXCEPT ![k] = @ + 1] ELSE builds

\* Protocols = v
SetProtocols(protos, v) ==
    /\ ~panicked
    /\ v \in NumberIndexValues(NumberIndexOf(NewProtocolIndex(protos)))
    /\ Protocols' = v
    /\ builds' = Reset("Protocols")
    /\ nextRef' = nextRef + Len(protos)
    /\ last' = Call("Protocols =", Protocols, v, Nil)
    /\ UNCHANGED <<idxVars, parseVars, Services, EtherTypes, panicked, calls>>

\* Protocols.Merge(protos)
DefaultProtocolsMerge(protos) ==
    LET fr == ProtocolMerge(Protocols, protos) IN
    /\ ~panicked
    /\ Protocols' = NumberIndexOf(fr)
    /\ panicked' = fr.panic
    /\ nextRef' = nextRef + Len(protos)
    /\ last' = Call("Protocols.Merge", Protocols, protos, Nil)
    /\ UNCHANGED <<idxVars, parseVars, Services, EtherTypes, builds, calls>>

\* Protocols.MergeIndex(NewProtocolIndex(protos)), as with LoadProtocols
DefaultProtocolsMergeIndex(protos) ==
    LET pi == NumberIndexOf(NewProtocolIndex(protos))
        fr == ProtocolMergeIndex(Protocols, pi) IN
    /\ ~panicked
    /\ Protocols' = NumberIndexOf(fr)
    /\ panicked' = fr.panic
    /\ nextRef' = nextRef + Len(protos)
    /\ last' = Call("Protocols.MergeIndex", Protocols, pi, Nil)
    /\ UNCHANGED <<idxVars, parseVars, Services, EtherTypes, builds, calls>>

CallProtocolByName(name) ==
    LET r == ProtocolByName(Protocols, name) IN
    /\ ~panicked
    /\ Protocols' = r.def
    /\ builds' = Built("Protocols", r)
    /\ last' = Call("ProtocolByName", Protocols, name, r.res)
    /\ UNCHANGED <<idxVars, parseVars, Services, EtherTypes, nextRef, panicked, calls>>

CallProtocolByNumber(number) ==
    LET r == ProtocolByNumber(Protocols, number) IN
    /\ ~panicked
    /\ Protocols' = r.def
    /\ builds' = Built("Protocols", r)
    /\ last' = Call("ProtocolByNumber", Protocols, number, r.res)
    /\ UNCHANGED <<idxVars, parseVars, Services, EtherTypes, nextRef, panicked, calls>>

\* Services = v
SetServices(services, v) ==
    /\ ~panicked
    /\ v \in ServiceIndexValues(ServiceIndexOf(NewServiceIndex(services)))
    /\ Services' = v
    /\ builds' = Reset("Services")
    /\ nextRef' = nextRef + Len(services)
    /\ last' = Call("Services =", Services, v, Nil)
    /\ UNCHANGED <<idxVars, parseVars, Protocols, EtherTypes, panicked, calls>>

DefaultServicesMerge(services) ==
    LET fr == ServiceMerge(Services, services) IN
    /\ ~panicked
    /\ Services' = ServiceIndexOf(fr)
    /\ panicked' = fr.panic
    /\ nextRef' = nextRef + Len(services)
    /\ last' = Call("Services.Merge", Services, services, Nil)
    /\ UNCHANGED <<idxVars, parseVars, Protocols, EtherTypes, builds, calls>>

DefaultServicesMergeIndex(services) ==
    LET si == ServiceIndexOf(NewServiceIndex(services))
        fr == ServiceMergeIndex(Services, si) IN
    /\ ~panicked
    /\ Services' = ServiceIndexOf(fr)
    /\ panicked' = fr.panic
    /\ nextRef' = nextRef + Len(services)
    /\ last' = Call("Services.MergeIndex", Services, si, Nil)
    /\ UNCHANGED <<idxVars, parseVars, Protocols, EtherTypes, builds, calls>>

\* Services.ByName(name, protocol): the method, without lazy initialisation
DefaultServicesByName(name, protocol) ==
    /\ ~panicked
    /\ last' = Call("Services.ByName", Services, <<name, protocol>>,
                    ServiceIndexByName(Services, name, protocol))
    /\ UNCHANGED <<idxVars, defVars, parseVars, nextRef, panicked, calls>>

DefaultServicesByPort(port, protocol) ==
    /\ ~panicked
    /\ last' = Call("Services.ByPort", Services, <<port, protocol>>,
                    ServiceIndexByPort(Services, port, protocol))
    /\ UNCHANGED <<idxVars, defVars, parseVars, nextRef, panicked, calls>>

CallServiceByName(name, protocol) ==
    LET r == ServiceByName(Services, name, protocol) IN
    /\ ~panicked
    /\ Services' = r.def
    /\ builds' = Built("Services", r)
    /\ last' = Call("ServiceByName", Services, <<name, protocol>>, r.res)
    /\ UNCHANGED <<idxVars, parseVars, Protocols, EtherTypes, nextRef, panicked, calls>>

CallServiceByPort(port, protocol) ==
    LET r == ServiceByPort(Services, port, protocol) IN
    /\ ~panicked
    /\ Services' = r.def
    /\ builds' = Built("Services", r)
    /\ last' = Call("ServiceByPort", Services, <<port, protocol>>, r.res)
    /\ UNCHANGED <<idxVars, parseVars, Protocols, EtherTypes, nextRef, panicked, calls>>

\* EtherTypes = v
SetEtherTypes(ethertypes, v) ==
    /\ ~panicked
    /\ v \in NumberIndexValues(NumberIndexOf(NewEtherTypeIndex(ethertypes)))
    /\ EtherTypes' = v
    /\ builds' = Reset("EtherTypes")
    /\ nextRef' = nextRef + Len(ethertypes)
    /\ last' = Call("EtherTypes =", EtherTypes, v, Nil)
    /\ UNCHANGED <<idxVars, parseVars, Protocols, Services, panicked, calls>>

DefaultEtherTypesMerge(ethertypes) ==
    LET fr == EtherTypeMerge(EtherTypes, ethertypes) IN
    /\ ~panicked
    /\ EtherTypes' = NumberIndexOf(fr)
    /\ panicked' = fr.panic
    /\ nextRef' = nextRef + Len(ethertypes)
    /\ last' = Call("EtherTypes.Merge", EtherTypes, ethertypes, Nil)
    /\ UNCHANGED <<idxVars, parseVars, Protocols, Services, builds, calls>>

DefaultEtherTypesMergeIndex(ethertypes) ==
    LET eti == NumberIndexOf(NewEtherTypeIndex(ethertypes))
        fr == EtherTypeMergeIndex(EtherTypes, eti) IN
    /\ ~panicked
    /\ EtherTypes' = NumberIndexOf(fr)
    /\ panicked' = fr.panic
    /\ nextRef' = nextRef + Len(ethertypes)
    /\ last' = Call("EtherTypes.MergeIndex", EtherTypes, eti, Nil)
    /\ UNCHANGED <<idxVars, parseVars, Protocols, Services, builds, calls>>

CallEtherTypeByName(name) ==
    LET r == EtherTypeByName(EtherTypes, name) IN
    /\ ~panicked
    /\ EtherTypes' = r.def
    /\ builds' = Built("EtherTypes", r)
    /\ last' = Call("EtherTypeByName", EtherTypes, name, r.res)
    /\ UNCHANGED <<idxVars, parseVars, Protocols, Services, nextRef, panicked, calls>>

CallEtherTypeByNumber(number) ==
    LET r == EtherTypeByNumber(EtherTypes, number) IN
    /\ ~panicked
    /\ EtherTypes' = r.def
    /\ builds' = Built("EtherTypes", r)
    /\ last' = Call("EtherTypeByNumber", EtherTypes, number, r.res)
    /\ UNCHANGED <<idxVars, parseVars, Protocols, Services, nextRef, panicked, calls>>

DefProtocolNames == {"tcp", "UDP"}
DefProtocolNumbers == {6, 132}
DefServiceNames == {"domain"}
DefServicePorts == {53}
DefServiceProtocols == {"", "udp"}
DefEtherTypeNames == {"IPv4", "dot1q"}
DefEtherTypeNumbers == {2048, 36864}

NextDef ==
    \/ \E l \in FileLists(FileProtocolShapes) :
          \E v \in NumberIndexValues(NumberIndexOf(NewProtocolIndex(l))) : SetProtocols(l, v)
    \/ \E l \in FileLists(FileProtocolShapes) : DefaultProtocolsMerge(l)
    \/ \E l \in FileLists(FileProtocolShapes) : DefaultProtocolsMergeIndex(l)
    \/ \E n \in DefProtocolNames : CallProtocolByName(n)
    \/ \E x \in DefProtocolNumbers : CallProtocolByNumber(x)
    \/ \E l \in FileLists(FileServiceShapes) :
          \E v \in ServiceIndexValues(ServiceIndexOf(NewServiceIndex(l))) : SetServices(l, v)
    \/ \E l \in FileLists(FileServiceShapes) : DefaultServicesMerge(l)
    \/ \E l \in FileLists(FileServiceShapes) : DefaultServicesMergeIndex(l)
    \/ \E n \in DefServiceNames, p \in DefServiceProtocols : DefaultServicesByName(n, p)
    \/ \E n \in DefServicePorts, p \in DefServiceProtocols : DefaultServicesByPort(n, p)
    \/ \E n \in DefServiceNames, p \in DefServiceProtocols : CallServiceByName(n, p)
    \/ \E n \in DefServicePorts, p \in DefServiceProtocols : CallServiceByPort(n, p)
    \/ \E l \in FileLists(FileEtherTypeShapes) :
          \E v \in NumberIndexValues(NumberIndexOf(NewEtherTypeIndex(l))) : SetEtherTypes(l, v)
    \/ \E l \in FileLists(FileEtherTypeShapes) : DefaultEtherTypesMerge(l)
    \/ \E l \in FileLists(FileEtherTypeShapes) : DefaultEtherTypesMergeIndex(l)
    \/ \E n \in DefEtherTypeNames : CallEtherTypeByName(n)
    \/ \E x \in DefEtherTypeNumbers : CallEtherTypeByNumber(x)

SpecDef == InitBase /\ [][NextDef]_vars

(***************************************************************************)
(* Text.  A string that is scanned is a sequence of one-character strings. *)
(***************************************************************************)
Space == {" ", "\t"}

RECURSIVE Str(_)
Str(s) == IF s = <<>> THEN "" ELSE s[1] \o Str(Tail(s))

RECURSIVE TrimLeft(_)
TrimLeft(s) == IF s # <<>> /\ s[1] \in Space THEN TrimLeft(Tail(s)) ELSE s

RECURSIVE TrimRight(_)
TrimRight(s) ==
    IF s # <<>> /\ s[Len(s)] \in Space THEN TrimRight(SubSeq(s, 1, Len(s) - 1)) ELSE s

\* strings.TrimSpace
TrimSpace(s) == TrimRight(TrimLeft(s))

\* strings.HasPrefix(s, c) for a one-character prefix
HasPrefix(s, c) == s # <<>> /\ s[1] = c

\* A faulty split: the separator is not looked for.
SplitN2Whole(s, sep) == << s >>

\* strings.SplitN(s, sep, 2) for a one-character separator
SplitN2(s, sep) ==
    LET at == { k \in 1..Len(s) : s[k] = sep }
    IN  IF at = {} THEN << s >>
        ELSE LET k == CHOOSE k \in at : \A j \in at : k <= j
             IN  << SubSeq(s, 1, k - 1), SubSeq(s, k + 1, Len(s)) >>

\* strings.Fields: the maximal runs of non-space characters, in order
RECURSIVE FieldsFrom(_, _, _, _)
FieldsFrom(s, n, cur, acc) ==
    IF n > Len(s) THEN (IF cur = <<>> THEN acc ELSE Append(acc, cur))
    ELSE IF s[n] \in Space
         THEN FieldsFrom(s, n + 1, <<>>, IF cur = <<>> THEN acc ELSE Append(acc, cur))
         ELSE FieldsFrom(s, n + 1, Append(cur, s[n]), acc)

Fields(s) == FieldsFrom(s, 1, <<>>, <<>>)

DigitChars == <<"0", "1", "2", "3", "4", "5", "6", "7", "8", "9",
                "a", "b", "c", "d", "e", "f">>
UpperDigitChars == <<"0", "1", "2", "3", "4", "5", "6", "7", "8", "9",
                     "A", "B", "C", "D", "E", "F">>

\* The value of a digit, or 36 for a character that is none.
DigitValue(c) ==
    IF \E k \in 1..16 : DigitChars[k] = c
    THEN (CHOOSE k \in 1..16 : DigitChars[k] = c) - 1
    ELSE IF \E k \in 1..16 : UpperDigitChars[k] = c
    THEN (CHOOSE k \in 1..16 : UpperDigitChars[k] = c) - 1
    ELSE 36

RECURSIVE Power(_, _)
Power(b, n) == IF n = 0 THEN 1 ELSE b * Power(b, n - 1)

RECURSIVE Numeral(_, _, _)
Numeral(s, base, n) ==
    IF n = 0 THEN 0 ELSE Numeral(s, base, n - 1) * base + DigitValue(s[n])

Parsed(val, err) == [val |-> val, err |-> err]

\* A faulty call: the bit size is not enforced.
ParseUintUnbounded(s, base, bitSize) ==
    IF s = <<>> \/ \E k \in 1..Len(s) : DigitValue(s[k]) >= base
    THEN Parsed(0, "syntax")
    ELSE Parsed(Numeral(s, base, Len(s)), "")

\* strconv.ParseUint(s, base, bitSize) for base 10 and 16
ParseUint(s, base, bitSize) ==
    IF s = <<>> \/ \E k \in 1..Len(s) : DigitValue(s[k]) >= base
    THEN Parsed(0, "syntax")
    ELSE IF Numeral(s, base, Len(s)) > Power(2, bitSize) - 1
    THEN Parsed(Power(2, bitSize) - 1, "range")
    ELSE Parsed(Numeral(s, base, Len(s)), "")

RECURSIVE Strs(_, _)
Strs(fields, from) ==
    IF from > Len(fields) THEN <<>> ELSE <<Str(fields[from])>> \o Strs(fields, from + 1)

(***************************************************************************)
(* The parsers.  A reader delivers its lines and then either end of file   *)
(* or a read error; a parser returns the list (nil or not) and the error,  *)
(* and read is the number of lines it has taken from the scanner.          *)
(***************************************************************************)
Returned(list, isnil, err, read) ==
    [list |-> list, nil |-> isnil, err |-> err, read |-> read]

RECURSIVE ParseProtocolsScan(_, _, _)
ParseProtocolsScan(r, n, protos) ==
    IF n > Len(r.lines)
    THEN (IF r.err THEN Returned(<<>>, TRUE, "read", n - 1)
          ELSE Returned(protos, FALSE, "", n - 1))
    ELSE LET line == TrimSpace(r.lines[n].text)
             fields == Fields(SplitN2(line, "#")[1])
         IN  IF Len(fields) < 2 THEN ParseProtocolsScan(r, n + 1, protos)
             ELSE LET proto == ParseUint(fields[2], 10, 8)
                  IN  IF proto.err # "" THEN Returned(<<>>, TRUE, proto.err, n)
                      ELSE ParseProtocolsScan(r, n + 1,
                               Append(protos, Protocol(Len(protos) + 1, Str(fields[1]),
                                                       proto.val, Strs(fields, 3))))

ParseProtocols(r) == ParseProtocolsScan(r, 1, <<>>)

\* A faulty scan: the number is read as the protocol parser reads its own,
\* as a decimal.
RECURSIVE ParseEtherTypesScanDecimal(_, _, _)
ParseEtherTypesScanDecimal(r, n, ethertypes) ==
    IF n > Len(r.lines)
    THEN (IF r.err THEN Returned(<<>>, TRUE, "read", n - 1)
          ELSE Returned(ethertypes, FALSE, "", n - 1))
    ELSE LET line == TrimSpace(r.lines[n].text)
             components == SplitN2(line, "#")
             comment == IF Len(components) > 1 THEN Str(TrimSpace(components[2])) ELSE ""
             fields == Fields(components[1])
         IN  IF HasPrefix(line, "#") THEN ParseEtherTypesScanDecimal(r, n + 1, ethertypes)
             ELSE IF Len(fields) < 2 THEN ParseEtherTypesScanDecimal(r, n + 1, ethertypes)
             ELSE LET number == ParseUint(fields[2], 10, 16)
                  IN  IF number.err # "" THEN Returned(<<>>, TRUE, number.err, n)
                      ELSE ParseEtherTypesScanDecimal(r, n + 1,
                               Append(ethertypes,
                                      EtherType(Len(ethertypes) + 1, Str(fields[1]),
                                                number.val, Strs(fields, 3), comment)))

RECURSIVE ParseEtherTypesScan(_, _, _)
ParseEtherTypesScan(r, n, ethertypes) ==
    IF n > Len(r.lines)
    THEN (IF r.err THEN Returned(<<>>, TRUE, "read", n - 1)
          ELSE Returned(ethertypes, FALSE, "", n - 1))
    ELSE LET line == TrimSpace(r.lines[n].text)
             components == SplitN2(line, "#")
             comment == IF Len(components) > 1 THEN Str(TrimSpace(components[2])) ELSE ""
             fields == Fields(components[1])
         IN  IF HasPrefix(line, "#") THEN ParseEtherTypesScan(r, n + 1, ethertypes)
             ELSE IF Len(fields) < 2 THEN ParseEtherTypesScan(r, n + 1, ethertypes)
             ELSE LET number == ParseUint(fields[2], 16, 16)
                  IN  IF number.err # "" THEN Returned(<<>>, TRUE, number.err, n)
                      ELSE ParseEtherTypesScan(r, n + 1,
                               Append(ethertypes,
                                      EtherType(Len(ethertypes) + 1, Str(fields[1]),
                                                number.val, Strs(fields, 3), comment)))

ParseEtherTypes(r) == ParseEtherTypesScan(r, 1, <<>>)

\* strings.Split(s, sep) for a one-character separator
RECURSIVE Split(_, _)
Split(s, sep) ==
    LET parts == SplitN2(s, sep)
    IN  IF Len(parts) = 1 THEN parts ELSE << parts[1] >> \o Split(parts[2], sep)

\* A faulty lookup: the name is taken as known whatever the index holds.
LookupProtocolAlwaysOk(p, name) == [proto |-> Get(p.Names, name), ok |-> TRUE]

\* proto, ok := p.Names[name]
LookupProtocol(p, name) == [proto |-> Get(p.Names, name), ok |-> Has(p.Names, name)]

RECURSIVE ParseServicesScan(_, _, _, _)
ParseServicesScan(r, p, n, services) ==
    IF n > Len(r.lines)
    THEN (IF r.err THEN Returned(<<>>, TRUE, "read", n - 1)
          ELSE Returned(services, FALSE, "", n - 1))
    ELSE LET line == TrimSpace(r.lines[n].text)
             fields == Fields(SplitN2(line, "#")[1])
             portprotocol == Split(fields[2], "/")
             port == ParseUint(portprotocol[1], 10, 16)
             found == LookupProtocol(p, Str(portprotocol[2]))
         IN  IF Len(fields) < 2 THEN ParseServicesScan(r, p, n + 1, services)
             ELSE IF Len(portprotocol) # 2 THEN ParseServicesScan(r, p, n + 1, services)
             ELSE IF port.err # "" THEN ParseServicesScan(r, p, n + 1, services)
             ELSE IF ~found.ok THEN ParseServicesScan(r, p, n + 1, services)
             ELSE ParseServicesScan(r, p, n + 1,
                      Append(services,
                             Service(Len(services) + 1, Str(fields[1]), port.val,
                                     Str(portprotocol[2]), found.proto,
                                     Strs(fields, 3))))

ParseServices(r, p) == ParseServicesScan(r, p, 1, <<>>)

(***************************************************************************)
(* The lines of the streams, each with what it is to ParseProtocols, to    *)
(* ParseEtherTypes and to ParseServices: "entry" (a well-formed entry),    *)
(* "skip" (blank, comment, fewer than two tokens or, for a service, a      *)
(* second token that is no port/protocol pair with a decimal port          *)
(* 0..65535) or "bad" (two tokens or more, and a number token that is no   *)
(* decimal 0..255, respectively no hexadecimal 0..FFFF).  With each label  *)
(* "entry" comes the record the line stands for, written out by hand, with *)
(* no position (ref 0) and, for a service, no protocol reference yet.      *)
(***************************************************************************)
MaxLines == 2   \* lines of a stream

Line(text, protocols, ethertypes, services, protocol, ethertype, service) ==
    [text |-> text, protocols |-> protocols, ethertypes |-> ethertypes,
     services |-> services, protocol |-> protocol, ethertype |-> ethertype,
     service |-> service]

Lines ==
    {
      Line(<<>>,
           "skip", "skip", "skip",
           Nil,
           Nil,
           Nil),
      Line(<<"#", " ", "a", " ", "9", "x">>,
           "skip", "skip", "skip",
           Nil,
           Nil,
           Nil),
      Line(<<"\t", "#", " ", "c", " ">>,
           "skip", "skip", "skip",
           Nil,
           Nil,
           Nil),
      Line(<<"t", "c", "p", " ", "6">>,
           "entry", "entry", "skip",
           Protocol(0, "tcp", 6, <<>>),
           EtherType(0, "tcp", 6, <<>>, ""),
           Nil),
      Line(<<" ", "u", "d", "p", "\t", "1", "7", " ", "U", "D", "P", " ", "#", " ", "9", "x">>,
           "entry", "entry", "skip",
           Protocol(0, "udp", 17, <<"UDP">>),
           EtherType(0, "udp", 23, <<"UDP">>, "9x"),
           Nil),
      Line(<<"x">>,
           "skip", "skip", "skip",
           Nil,
           Nil,
           Nil),
      Line(<<"x", " ", "#", " ", "6">>,
           "skip", "skip", "skip",
           Nil,
           Nil,
           Nil),
      Line(<<"x", " ", "6", "6", "6">>,
           "bad", "entry", "skip",
           Nil,
           EtherType(0, "x", 1638, <<>>, ""),
           Nil),
      Line(<<"x", " ", "6", "x">>,
           "bad", "bad", "skip",
           Nil,
           Nil,
           Nil),
      Line(<<"R", "o", "M", "O", "N", " ", "8", "8", "B", "F", " ", "m", "t">>,
           "bad", "entry", "skip",
           Nil,
           EtherType(0, "RoMON", 35007, <<"mt">>, ""),
           Nil),
      Line(<<"x", " ", "1", "0", "0", "0", "0">>,
           "bad", "bad", "skip",
           Nil,
           Nil,
           Nil),
      Line(<<"t", "e", "s", "t", " ", "9", "0", "0", "0">>,
           "bad", "entry", "skip",
           Nil,
           EtherType(0, "test", 36864, <<>>, ""),
           Nil),
      Line(<<"a", " ", "1", "0", " ", "b", " ", "c", " ", "#", " ", "d", " ", "#", " ", "e", " ">>,
           "entry", "entry", "skip",
           Protocol(0, "a", 10, <<"b", "c">>),
           EtherType(0, "a", 16, <<"b", "c">>, "d # e"),
           Nil),
      Line(<<"c", "r", "a", "s", "h", " ", "6", "6", "6", "/", "f", "o", "o", "b", "a", "r", " ", "b", "u", "r", "n">>,
           "bad", "bad", "entry",
           Nil,
           Nil,
           Service(0, "crash", 666, "foobar", Nil, <<"burn">>)),
      Line(<<" ", "c", "r", "a", "s", "h", "\t", "6", "6", "6", "/", "b", "a", "z", " ", "b", "u", "r", "n", " ", "#", " ", "c">>,
           "bad", "bad", "entry",
           Nil,
           Nil,
           Service(0, "crash", 666, "baz", Nil, <<"burn">>)),
      Line(<<"c", "r", "a", "s", "h", " ", "a", "n", "d", " ", "b", "u", "r", "n">>,
           "bad", "bad", "skip",
           Nil,
           Nil,
           Nil),
      Line(<<"c", "r", "a", "s", "h", " ", "a", "n", "d", "/", "a", "n", "d", " ", "b", "u", "r", "n">>,
           "bad", "bad", "skip",
           Nil,
           Nil,
           Nil),
      Line(<<"c", "r", "a", "s", "h", " ", "6", "6", "6", "/", "a", "n", "d", " ", "b", "u", "r", "n">>,
           "bad", "bad", "entry",
           Nil,
           Nil,
           Service(0, "crash", 666, "and", Nil, <<"burn">>)),
      Line(<<"x", " ", "7", "0", "0", "0", "0", "/", "b", "a", "z">>,
           "bad", "bad", "skip",
           Nil,
           Nil,
           Nil),
      Line(<<"x", " ", "6", "/", "6", "/", "b", "a", "z">>,
           "bad", "bad", "skip",
           Nil,
           Nil,
           Nil),
      Line(<<"x", " ", "5", "3", "/">>,
           "bad", "bad", "skip",
           Nil,
           Nil,
           Nil)
    }

\* The protocol indexes handed to ParseServices.
TestProtocols ==
    << Protocol(201, "foobar", 12, <<>>), Protocol(202, "baz", 234, <<>>) >>

ParseProtocolIndexes ==
    { NumberIndexOf(NewProtocolIndex(TestProtocols)),
      NumberIndexOf(NewProtocolIndex(SubSeq(TestProtocols, 1, 1))),
      ZeroProtocolIndex }

Streams ==
    { [lines |-> l, err |-> e] :
        l \in UNION { [1..n -> Lines] : n \in 0..MaxLines }, e \in BOOLEAN }

InitParse == Constructed /\ input \in Streams

\* A parser reads the stream to its end (or to its error): a stream is parsed
\* once.

CallParseProtocols ==
    /\ output = <<>>
    /\ output' = [op |-> "ParseProtocols"] @@ ParseProtocols(input)
    /\ UNCHANGED <<idxVars, defVars, nextRef, last, panicked, input, calls>>

CallParseEtherTypes ==
    /\ output = <<>>
    /\ output' = [op |-> "ParseEtherTypes"] @@ ParseEtherTypes(input)
    /\ UNCHANGED <<idxVars, defVars, nextRef, last, panicked, input, calls>>

CallParseServices(p) ==
    /\ output = <<>>
    /\ output' = [op |-> "ParseServices", p |-> p] @@ ParseServices(input, p)
    /\ UNCHANGED <<idxVars, defVars, nextRef, last, panicked, input, calls>>

\* LoadServices of a file that opens or not, and then reads as the stream.
LoadServices(opened, r, protos) ==
    IF ~opened
    THEN [index |-> ServiceIndexOf(NewServiceIndex(<<>>)), err |-> "open"]
    ELSE LET services == ParseServices(r, protos)
         IN  IF services.err # ""
             THEN [index |-> ServiceIndexOf(NewServiceIndex(<<>>)), err |-> services.err]
             ELSE [index |-> ServiceIndexOf(NewServiceIndex(services.list)), err |-> ""]

CallLoadServices(opened, p) ==
    /\ output = <<>>
    /\ output' = [op |-> "LoadServices", p |-> p] @@ LoadServices(opened, input, p)
    /\ UNCHANGED <<idxVars, defVars, nextRef, last, panicked, input, calls>>

NextParse ==
    \/ CallParseProtocols
    \/ CallParseEtherTypes
    \/ \E p \in ParseProtocolIndexes : CallParseServices(p)
    \/ \E opened \in BOOLEAN, p \in ParseProtocolIndexes : CallLoadServices(opened, p)

SpecParse == InitParse /\ [][NextParse]_vars

(***************************************************************************)
(* Two goroutines calling ProtocolByName.  Nothing orders the test of      *)
(* Protocols.Numbers, the assignment to Protocols and the read of          *)
(* Protocols.Names by one goroutine with those of the other, and the       *)
(* assignment of the struct of two maps is two stores, in either order.    *)
(* calls.overlapped tells that a call was entered while another was open.  *)
(***************************************************************************)
MaxCalls == 1    \* calls of one goroutine

RaceNames == {"tcp", "frotz"}

\* A faulty test: the index is taken as uninitialized whatever it holds.
ProtocolsUninitializedAlways(P) == TRUE

\* Protocols.Numbers == nil
ProtocolsUninitialized(P) == P.Numbers.nil

Step(g, c) == [calls EXCEPT !.of[g] = c]

RaceCall(g, name) ==
    /\ calls.of[g].pc = "idle"
    /\ calls.of[g].n < MaxCalls
    /\ calls' = [of |-> [calls.of EXCEPT ![g] =
                            [@ EXCEPT !.pc = "test", !.name = name,
                                      !.saw = FALSE, !.res = Nil]],
                 overlapped |-> \/ calls.overlapped
                                \/ \E h \in Goroutines \ {g} : calls.of[h].pc # "idle"]
    /\ UNCHANGED <<idxVars, defVars, parseVars, nextRef, last, panicked>>

RaceTest(g) ==
    LET uninitialized == ProtocolsUninitialized(Protocols) IN
    /\ calls.of[g].pc = "test"
    /\ calls' = Step(g, [calls.of[g] EXCEPT
                             !.saw = uninitialized,
                             !.pc = IF uninitialized THEN "make" ELSE "read"])
    /\ UNCHANGED <<idxVars, defVars, parseVars, nextRef, last, panicked>>

\* NewProtocolIndex(BuiltinProtocols)
RaceMake(g) ==
    /\ calls.of[g].pc = "make"
    /\ builds' = [builds EXCEPT !["Protocols"] = @ + 1]
    /\ calls' = Step(g, [calls.of[g] EXCEPT !.pc = "store",
                                            !.pending = {"Names", "Numbers"}])
    /\ UNCHANGED <<idxVars, parseVars, Services, Protocols, EtherTypes, nextRef,
                   last, panicked>>

\* Protocols = ..., one field
RaceStore(g, field) ==
    LET made == NumberIndexOf(NewProtocolIndex(BuiltinProtocols))
        left == calls.of[g].pending \ {field} IN
    /\ calls.of[g].pc = "store"
    /\ field \in calls.of[g].pending
    /\ Protocols' = [Protocols EXCEPT ![field] = made[field]]
    /\ calls' = Step(g, [calls.of[g] EXCEPT
                             !.pending = left,
                             !.pc = IF left = {} THEN "read" ELSE "store"])
    /\ UNCHANGED <<idxVars, parseVars, Services, EtherTypes, builds, nextRef,
                   last, panicked>>

\* return Protocols.Names[name]
RaceReturn(g) ==
    /\ calls.of[g].pc = "read"
    /\ calls' = Step(g, [calls.of[g] EXCEPT
                             !.res = Get(Protocols.Names, calls.of[g].name),
                             !.pc = "idle",
                             !.n = @ + 1])
    /\ UNCHANGED <<idxVars, defVars, parseVars, nextRef, last, panicked>>

NextRace ==
    \/ \E g \in Goroutines, name \in RaceNames : RaceCall(g, name)
    \/ \E g \in Goroutines : RaceTest(g)
    \/ \E g \in Goroutines : RaceMake(g)
    \/ \E g \in Goroutines, field \in {"Names", "Numbers"} : RaceStore(g, field)
    \/ \E g \in Goroutines : RaceReturn(g)

SpecRace == InitBase /\ [][NextRace]_vars

(***************************************************************************)
(* Vocabulary of the properties.                                           *)
(***************************************************************************)
AllServiceNames == {"crash", "burn", "frotz"}
AllServicePorts == {666, 53, 12345}
AllProtocolNames == {"foobar", "baz"}

\* The record carries the name: as its Name or as one of its aliases.
Carries(r, n) == r.Name = n \/ \E k \in 1..Len(r.Aliases) : r.Aliases[k] = n

Positions(list, P(_)) == { k \in 1..Len(list) : P(list[k]) }

Least(S) == CHOOSE k \in S : \A j \in S : k <= j

Greatest(S) == CHOOSE k \in S : \A j \in S : j <= k

\* The binding of key is the first element of list satisfying P, and the key is
\* absent when there is none.
BoundToFirst(mp, key, list, P(_)) ==
    IF Positions(list, P) = {} THEN ~Has(mp, key)
    ELSE Has(mp, key) /\ mp.m[key] = list[Least(Positions(list, P))]

BoundToLast(mp, key, list, P(_)) ==
    IF Positions(list, P) = {} THEN ~Has(mp, key)
    ELSE Has(mp, key) /\ mp.m[key] = list[Greatest(Positions(list, P))]

(***************************************************************************)
(* C1: as long as a ServiceIndex has only seen Merge calls (the one inside *)
(* NewServiceIndex included), each protocol-agnostic key (name, ""),       *)
(* (alias, "") and (port, "") is bound to the first record, in the order   *)
(* the records were merged, that carries the name, alias or port; later    *)
(* records under any protocol do not rebind it.                            *)
(***************************************************************************)
C1_FirstWins ==
    "Services" \notin absorbed =>
        /\ \A n \in AllServiceNames :
             LET P(r) == Carries(r, n)
             IN  BoundToFirst(sidx.Names, ServiceProtocol(n, ""), smerged, P)
        /\ \A p \in AllServicePorts :
             LET P(r) == r.Port = p
             IN  BoundToFirst(sidx.Ports, ServicePort(p, ""), smerged, P)

\* "crash 666/foobar burn" then "crash 666/baz burn": all three agnostic keys
\* name the foobar record.
C1_Witness ==
    /\ "Services" \notin absorbed
    /\ Len(smerged) = 2
    /\ smerged[1] = Service(1, "crash", 666, "foobar", Nil, <<"burn">>)
    /\ smerged[2] = Service(2, "crash", 666, "baz", Nil, <<"burn">>)
    /\ ServiceIndexByName(sidx, "crash", "") = smerged[1]
    /\ ServiceIndexByName(sidx, "burn", "") = smerged[1]
    /\ ServiceIndexByPort(sidx, 666, "") = smerged[1]

(***************************************************************************)
(* C2: as long as a ServiceIndex has only seen Merge calls, ByName(n, p)   *)
(* with p # "" is the last merged record with ProtocolName p that carries  *)
(* n, and ByPort(port, p) the last merged record with that Port and        *)
(* ProtocolName p; a ByName/ByPort call returns exactly that record.       *)
(***************************************************************************)
C2_QualifiedLastWins ==
    "Services" \notin absorbed =>
        /\ \A n \in AllServiceNames, pn \in AllProtocolNames :
             LET P(r) == r.ProtocolName = pn /\ Carries(r, n)
             IN  /\ BoundToLast(sidx.Names, ServiceProtocol(n, pn), smerged, P)
                 /\ last.op = "ServiceIndex.ByName" /\ last.arg = <<n, pn>> =>
                      last.res = IF Positions(smerged, P) = {} THEN Nil
                                 ELSE smerged[Greatest(Positions(smerged, P))]
        /\ \A p \in AllServicePorts, pn \in AllProtocolNames :
             LET P(r) == r.ProtocolName = pn /\ r.Port = p
             IN  /\ BoundToLast(sidx.Ports, ServicePort(p, pn), smerged, P)
                 /\ last.op = "ServiceIndex.ByPort" /\ last.arg = <<p, pn>> =>
                      last.res = IF Positions(smerged, P) = {} THEN Nil
                                 ELSE smerged[Greatest(Positions(smerged, P))]

\* Two records of the same name, port and protocol: the lookup returns the second.
C2_Witness ==
    /\ "Services" \notin absorbed
    /\ Len(smerged) = 2
    /\ smerged[1].ProtocolName = smerged[2].ProtocolName
    /\ smerged[1].Name = smerged[2].Name
    /\ smerged[1].Port # smerged[2].Port
    /\ last.op = "ServiceIndex.ByName"
    /\ last.arg = <<smerged[1].Name, smerged[1].ProtocolName>>
    /\ last.res = smerged[2]

AllNumberNames == {"tcp", "udp", "IPv4", "dot1q", "frotz"}
AllNumbers == {6, 17, 2048, 33024, 255}

\* Every name and number key is bound to the last record of list carrying it.
LastWins(i, list) ==
    /\ \A n \in AllNumberNames :
         LET P(r) == Carries(r, n) IN BoundToLast(i.Names, n, list, P)
    /\ \A x \in AllNumbers :
         LET P(r) == r.Number = x IN BoundToLast(i.Numbers, x, list, P)

\* Merge(list) took the index from pre to i: a key carried by a record of list
\* is bound to the last such record, whatever it was bound to in pre, and any
\* other key is as in pre.
Overwrites(i, pre, list) ==
    /\ \A n \in AllNumberNames :
         LET P(r) == Carries(r, n)
         IN  IF Positions(list, P) = {} THEN Get(i.Names, n) = Get(pre.Names, n)
             ELSE Get(i.Names, n) = list[Greatest(Positions(list, P))]
    /\ \A x \in AllNumbers :
         LET P(r) == r.Number = x
         IN  IF Positions(list, P) = {} THEN Get(i.Numbers, x) = Get(pre.Numbers, x)
             ELSE Get(i.Numbers, x) = list[Greatest(Positions(list, P))]

(***************************************************************************)
(* C3: ProtocolIndex.Merge and EtherTypeIndex.Merge are last-write-wins on *)
(* every key: an index that has only seen Merge calls binds each name,     *)
(* alias and number key to the last merged record carrying it, and a Merge *)
(* on any index rebinds every key its records carry to the last of them,   *)
(* overwriting the earlier binding.                                        *)
(***************************************************************************)
C3_LastWins ==
    /\ "Protocols" \notin absorbed => LastWins(pidx, pmerged)
    /\ "EtherTypes" \notin absorbed => LastWins(eidx, emerged)
    /\ last.op = "ProtocolIndex.Merge" => Overwrites(pidx, last.pre, last.arg)
    /\ last.op = "EtherTypeIndex.Merge" => Overwrites(eidx, last.pre, last.arg)

\* "tcp 6" then "tcp 17 udp" by a second Merge: tcp is rebound; and the same
\* for two EtherType records of one number.
C3_WitnessProtocol ==
    /\ "Protocols" \notin absorbed
    /\ pmerged = << Protocol(1, "tcp", 6, <<>>), Protocol(2, "tcp", 17, <<"udp">>) >>
    /\ last.op = "ProtocolIndex.Merge"
    /\ Get(last.pre.Names, "tcp") = pmerged[1]
    /\ Get(pidx.Names, "tcp") = pmerged[2]
    /\ Get(pidx.Numbers, 6) = pmerged[1]

C3_WitnessEtherType ==
    /\ Len(emerged) = 2
    /\ emerged[1].Number = emerged[2].Number
    /\ emerged[1].Name # emerged[2].Name
    /\ last.op = "EtherTypeIndex.Merge"
    /\ Get(last.pre.Numbers, emerged[1].Number) = emerged[1]
    /\ Get(eidx.Numbers, emerged[1].Number) = emerged[2]

C3_Witness == C3_WitnessProtocol \/ C3_WitnessEtherType

(***************************************************************************)
(* C4: MergeIndex(other) leaves the receiver with the union of both key    *)
(* sets, each key of other bound to other's record (also the Service keys  *)
(* (name, "") and (port, "")), each other key bound as before.             *)
(***************************************************************************)
Overlay(post, pre, other) ==
    /\ Keys(post) = Keys(pre) \cup Keys(other)
    /\ \A k \in Keys(other) : post.m[k] = other.m[k]
    /\ \A k \in Keys(pre) \ Keys(other) : post.m[k] = pre.m[k]

C4_MergeIndexOverlays ==
    /\ last.op = "ServiceIndex.MergeIndex" =>
         /\ Overlay(sidx.Names, last.pre.Names, last.arg.Names)
         /\ Overlay(sidx.Ports, last.pre.Ports, last.arg.Ports)
    /\ last.op = "ProtocolIndex.MergeIndex" =>
         /\ Overlay(pidx.Names, last.pre.Names, last.arg.Names)
         /\ Overlay(pidx.Numbers, last.pre.Numbers, last.arg.Numbers)
    /\ last.op = "EtherTypeIndex.MergeIndex" =>
         /\ Overlay(eidx.Names, last.pre.Names, last.arg.Names)
         /\ Overlay(eidx.Numbers, last.pre.Numbers, last.arg.Numbers)

\* An index of "crash 666/baz" merged into an index of "crash 666/foobar":
\* three Names keys, three Ports keys, and the agnostic keys name the baz record.
C4_Witness ==
    /\ last.op = "ServiceIndex.MergeIndex"
    /\ smerged = << Service(1, "crash", 666, "foobar", Nil, <<>>) >>
    /\ last.pre = ServiceIndexOf(NewServiceIndex(smerged))
    /\ last.arg = ServiceIndexOf(NewServiceIndex(
                      << Service(2, "crash", 666, "baz", Nil, <<>>) >>))
    /\ Cardinality(Keys(sidx.Names)) = 3
    /\ Cardinality(Keys(sidx.Ports)) = 3
    /\ ServiceIndexByName(sidx, "crash", "").ProtocolName = "baz"
    /\ ServiceIndexByPort(sidx, 666, "").ref = 2

(***************************************************************************)
(* C5: MergeIndex of an index A into a freshly constructed, empty index B  *)
(* makes both mappings of B equal to those of A: the same keys, each bound *)
(* to the same record.                                                     *)
(***************************************************************************)
SameMapping(a, b) ==
    /\ Keys(a) = Keys(b)
    /\ \A k \in Keys(a) : a.m[k] = b.m[k]

Fresh(mp) == ~mp.nil /\ Keys(mp) = {}

C5_MergeIndexIntoEmpty ==
    /\ last.op = "ServiceIndex.MergeIndex" /\ Fresh(last.pre.Names) /\ Fresh(last.pre.Ports) =>
         SameMapping(sidx.Names, last.arg.Names) /\ SameMapping(sidx.Ports, last.arg.Ports)
    /\ last.op = "ProtocolIndex.MergeIndex" /\ Fresh(last.pre.Names) /\ Fresh(last.pre.Numbers) =>
         SameMapping(pidx.Names, last.arg.Names) /\ SameMapping(pidx.Numbers, last.arg.Numbers)
    /\ last.op = "EtherTypeIndex.MergeIndex" /\ Fresh(last.pre.Names) /\ Fresh(last.pre.Numbers) =>
         SameMapping(eidx.Names, last.arg.Names) /\ SameMapping(eidx.Numbers, last.arg.Numbers)

C5_Witness ==
    /\ last.op = "ProtocolIndex.MergeIndex"
    /\ Fresh(last.pre.Names) /\ Fresh(last.pre.Numbers)
    /\ Cardinality(Keys(last.arg.Names)) = 2
    /\ Cardinality(Keys(last.arg.Numbers)) = 2
    /\ Cardinality(Keys(pidx.Names)) = 2
    /\ Cardinality(Keys(pidx.Numbers)) = 2

(***************************************************************************)
(* The default indexes as NewXIndex builds them from the builtin data.     *)
(***************************************************************************)
BuiltinProtocolIndex == NumberIndexOf(NewProtocolIndex(BuiltinProtocols))
BuiltinServiceIndex == ServiceIndexOf(NewServiceIndex(BuiltinServices))
BuiltinEtherTypeIndex == NumberIndexOf(NewEtherTypeIndex(BuiltinEtherTypes))

ProtocolLookups == {"ProtocolByName", "ProtocolByNumber"}
ServiceLookups == {"ServiceByName", "ServiceByPort"}
EtherTypeLookups == {"EtherTypeByName", "EtherTypeByNumber"}

\* What the most recent package-level lookup finds in the index i.
Answer(i) ==
    CASE last.op \in {"ProtocolByName", "EtherTypeByName"} -> Get(i.Names, last.arg)
      [] last.op \in {"ProtocolByNumber", "EtherTypeByNumber"} -> Get(i.Numbers, last.arg)
      [] last.op = "ServiceByName" -> Get(i.Names, ServiceProtocol(last.arg[1], last.arg[2]))
      [] last.op = "ServiceByPort" -> Get(i.Ports, ServicePort(last.arg[1], last.arg[2]))

\* The most recent call was a package-level lookup on the default index k,
\* which is def now; zero is its zero value and known the index NewXIndex
\* builds from the builtin data.
LazyDefault(k, def, zero, known) ==
    /\ last.pre = zero =>
         /\ def = known
         /\ builds[k] = 1
         /\ last.res = Answer(known)
    /\ last.pre = known =>
         /\ def = last.pre
         /\ builds[k] <= 1
         /\ last.res = Answer(known)

(***************************************************************************)
(* C6: a package-level lookup that finds the default index in its zero     *)
(* state builds it from the builtin records and answers from it, as the    *)
(* same lookup on NewXIndex(builtin) does; a lookup that finds the index   *)
(* so built reuses it and does not build it again.                         *)
(***************************************************************************)
C6_LazyDefault ==
    /\ last.op \in ProtocolLookups =>
         LazyDefault("Protocols", Protocols, ZeroProtocolIndex, BuiltinProtocolIndex)
    /\ last.op \in ServiceLookups =>
         LazyDefault("Services", Services, ZeroServiceIndex, BuiltinServiceIndex)
    /\ last.op \in EtherTypeLookups =>
         LazyDefault("EtherTypes", EtherTypes, ZeroEtherTypeIndex, BuiltinEtherTypeIndex)

\* A second lookup on the lazily built Protocols index: tcp by number.
C6_Witness ==
    /\ last.op = "ProtocolByNumber"
    /\ last.arg = 6
    /\ last.pre = BuiltinProtocolIndex
    /\ builds["Protocols"] = 1
    /\ last.res = BuiltinProtocols[1]
    /\ Protocols = BuiltinProtocolIndex

(***************************************************************************)
(* C7 as claimed: a default index that the caller has populated, in its    *)
(* name mapping, its number/port mapping or both, is never overwritten by  *)
(* the lazy initialisation; every package-level lookup answers from the    *)
(* caller's index.                                                         *)
(***************************************************************************)
Populated(mp) == Keys(mp) # {}

CallerIndexKept(def) == def = last.pre /\ last.res = Answer(last.pre)

C7_CallerIndexKept ==
    /\ last.op \in ProtocolLookups /\ (Populated(last.pre.Names) \/ Populated(last.pre.Numbers)) =>
         CallerIndexKept(Protocols)
    /\ last.op \in ServiceLookups /\ (Populated(last.pre.Names) \/ Populated(last.pre.Ports)) =>
         CallerIndexKept(Services)
    /\ last.op \in EtherTypeLookups /\ (Populated(last.pre.Names) \/ Populated(last.pre.Numbers)) =>
         CallerIndexKept(EtherTypes)

(***************************************************************************)
(* C8 as claimed: MergeIndex of a file's index on the default Protocols or *)
(* Services index, with no package-level lookup before it, layers the file *)
(* over the builtin data: the call returns, and the package-level lookups  *)
(* then find the file's record for every name the file defines and the     *)
(* builtin record for every other name.                                    *)
(***************************************************************************)
C8_LayersOverBuiltin ==
    /\ last.op = "Protocols.MergeIndex" /\ last.pre = ZeroProtocolIndex =>
         /\ ~panicked
         /\ \A n \in {"tcp", "mytcp", "sctp", "udp", "UDP"} :
              ProtocolByName(Protocols, n).res =
                  IF Has(last.arg.Names, n) THEN last.arg.Names.m[n]
                  ELSE Get(BuiltinProtocolIndex.Names, n)
    /\ last.op = "Services.MergeIndex" /\ last.pre = ZeroServiceIndex =>
         /\ ~panicked
         /\ \A n \in {"domain", "dns", "crash"}, pn \in {"", "tcp", "udp"} :
              ServiceByName(Services, n, pn).res =
                  IF Has(last.arg.Names, ServiceProtocol(n, pn))
                  THEN last.arg.Names.m[ServiceProtocol(n, pn)]
                  ELSE Get(BuiltinServiceIndex.Names, ServiceProtocol(n, pn))

(***************************************************************************)
(* C9 as claimed: no call panics, on any index value, the zero value       *)
(* included.                                                               *)
(***************************************************************************)
C9_NoPanic == ~panicked

(***************************************************************************)
(* C10: ParseProtocols and ParseEtherTypes abort at the first line that    *)
(* has two tokens or more and a number token that does not parse: they     *)
(* return an error and the nil list, whatever the lines before it have     *)
(* yielded, and take no further line from the scanner; a read error of the *)
(* stream gives an error and the nil list as well.                         *)
(***************************************************************************)
BadLines(kind) == { k \in 1..Len(input.lines) : input.lines[k][kind] = "bad" }

AbortsAtFirstBad(kind) ==
    /\ BadLines(kind) # {} =>
         /\ output.err # ""
         /\ output.nil
         /\ output.list = <<>>
         /\ output.read = Least(BadLines(kind))
    /\ BadLines(kind) = {} /\ input.err =>
         /\ output.err # ""
         /\ output.nil
         /\ output.list = <<>>
    /\ BadLines(kind) = {} /\ ~input.err => output.err = "" /\ ~output.nil

C10_AbortOnBadNumber ==
    /\ output # <<>> /\ output.op = "ParseProtocols" => AbortsAtFirstBad("protocols")
    /\ output # <<>> /\ output.op = "ParseEtherTypes" => AbortsAtFirstBad("ethertypes")

\* "tcp 6" then "x 666": the record of the first line is dropped.
C10_Witness ==
    /\ output # <<>>
    /\ output.op = "ParseProtocols"
    /\ Len(input.lines) = 2
    /\ input.lines[1].protocols = "entry"
    /\ input.lines[2].text = <<"x", " ", "6", "6", "6">>
    /\ ~input.err
    /\ output.nil
    /\ output.err = "range"

(***************************************************************************)
(* What the parsers are to return for a stream that is read to its end:    *)
(* the hand-written records of the lines that are entries, in line order,  *)
(* each at its position in the result.  A service line is an entry of the  *)
(* result only when the index p knows its protocol name, and its record    *)
(* then refers to the record p.Names holds under that name.                *)
(***************************************************************************)
RECURSIVE ServiceEntries(_, _, _)
ServiceEntries(lines, p, n) ==
    IF n = 0 THEN <<>>
    ELSE LET before == ServiceEntries(lines, p, n - 1)
             l == lines[n]
         IN  IF l.services = "entry" /\ l.service.ProtocolName \in Keys(p.Names)
             THEN Append(before,
                         [l.service EXCEPT !.ref = Len(before) + 1,
                                           !.Protocol = p.Names.m[l.service.ProtocolName]])
             ELSE before

\* C11: ParseServices never fails on the content of a line: a line with
\* fewer than two tokens, with a second token that is no port/protocol pair,
\* with a port that is no decimal 0..65535 or with a protocol name the index
\* does not know is skipped and the scan goes on to the last line; the result
\* is exactly the records of the remaining lines in input order, and the only
\* error is that of the stream, returned with no records.
C11_ServiceLinesSkipped ==
    output # <<>> /\ output.op = "ParseServices" =>
        /\ output.read = Len(input.lines)
        /\ input.err => output.err = "read" /\ output.nil /\ output.list = <<>>
        /\ ~input.err =>
             /\ output.err = ""
             /\ ~output.nil
             /\ output.list = ServiceEntries(input.lines, output.p, Len(input.lines))

\* A line whose protocol the index does not know, then an entry that is kept.
C11_Witness ==
    /\ output # <<>> /\ output.op = "ParseServices"
    /\ ~input.err
    /\ Len(input.lines) = 2
    /\ input.lines[1].services = "entry"
    /\ input.lines[1].service.ProtocolName \notin Keys(output.p.Names)
    /\ Len(output.list) = 1
    /\ output.list[1].Name = "crash"

\* The record refers to a protocol, to the one p holds under the record's
\* protocol name, and its port is one of a transport.
Resolved(service, p) ==
    /\ service.Protocol # Nil
    /\ service.ProtocolName \in Keys(p.Names)
    /\ service.Protocol = p.Names.m[service.ProtocolName]
    /\ service.Port \in 0..65535

\* C12: every Service that ParseServices returns, and every Service that
\* LoadServices puts into an index, has a resolved protocol reference: its
\* Protocol is not nil and is the record the supplied ProtocolIndex maps its
\* ProtocolName to, and its Port lies within 0..65535.
C12_ProtocolResolved ==
    /\ output # <<>> /\ output.op = "ParseServices" =>
         \A k \in 1..Len(output.list) : Resolved(output.list[k], output.p)
    /\ output # <<>> /\ output.op = "LoadServices" =>
         /\ \A key \in Keys(output.index.Names) :
                Resolved(output.index.Names.m[key], output.p)
         /\ \A key \in Keys(output.index.Ports) :
                Resolved(output.index.Ports.m[key], output.p)

\* A record of protocol baz is returned next to a line of an unknown protocol.
C12_WitnessParsed ==
    /\ output # <<>> /\ output.op = "ParseServices"
    /\ \E k \in 1..Len(input.lines) :
          /\ input.lines[k].services = "entry"
          /\ input.lines[k].service.ProtocolName = "and"
    /\ \E k \in 1..Len(output.list) : output.list[k].Protocol.Name = "baz"

\* The same stream, loaded: crash is indexed for baz and for any protocol.
C12_WitnessLoaded ==
    /\ output # <<>> /\ output.op = "LoadServices"
    /\ \E k \in 1..Len(input.lines) :
          /\ input.lines[k].services = "entry"
          /\ input.lines[k].service.ProtocolName = "and"
    /\ ServiceProtocol("crash", "baz") \in Keys(output.index.Names)
    /\ ServicePort(666, "") \in Keys(output.index.Ports)

C12_Witness == C12_WitnessParsed \/ C12_WitnessLoaded

\* The lines that are blank after trimming or start, after blanks, with "#".
CommentOrBlank ==
    { <<>>,
      <<"#", " ", "a", " ", "9", "x">>,
      <<"\t", "#", " ", "c", " ">> }

Uncommented(lines) == SelectSeq(lines, LAMBDA l : l.text \notin CommentOrBlank)

Outcome(res) == [list |-> res.list, nil |-> res.nil, err |-> res.err]

Parsers == {"ParseProtocols", "ParseEtherTypes", "ParseServices"}

\* C13: for each of the three parsers a line that is blank after trimming or
\* whose first non-blank character is "#" yields no record and no error,
\* whatever follows the "#", and does not change what the other lines yield:
\* the parser returns what it returns for the stream without these lines, and
\* for a stream of such lines only it returns an empty list and no error.
C13_CommentsAndBlanksSkipped ==
    output # <<>> /\ output.op \in Parsers =>
        LET without == [lines |-> Uncommented(input.lines), err |-> input.err]
        IN  /\ output.op = "ParseProtocols" =>
                 Outcome(output) = Outcome(ParseProtocols(without))
            /\ output.op = "ParseEtherTypes" =>
                 Outcome(output) = Outcome(ParseEtherTypes(without))
            /\ output.op = "ParseServices" =>
                 Outcome(output) = Outcome(ParseServices(without, output.p))
            /\ without.lines = <<>> /\ ~input.err =>
                 output.list = <<>> /\ ~output.nil /\ output.err = ""

\* A comment line with tokens behind the "#", then an entry that is returned.
CommentThenEntry(op, kind) ==
    /\ output # <<>> /\ output.op = op
    /\ Len(input.lines) = 2
    /\ input.lines[1].text = <<"#", " ", "a", " ", "9", "x">>
    /\ input.lines[2][kind] = "entry"
    /\ Len(output.list) = 1
    /\ output.err = ""

C13_WitnessProtocols == CommentThenEntry("ParseProtocols", "protocols")

C13_WitnessEtherTypes == CommentThenEntry("ParseEtherTypes", "ethertypes")

C13_WitnessServices == CommentThenEntry("ParseServices", "services")

C13_Witness ==
    C13_WitnessProtocols \/ C13_WitnessEtherTypes \/ C13_WitnessServices

\* The hand-written records of the lines that are entries to the parser of
\* the kind, in line order, each at its position in the result.
RECURSIVE Entries(_, _, _, _)
Entries(lines, kind, record, n) ==
    IF n = 0 THEN <<>>
    ELSE LET before == Entries(lines, kind, record, n - 1)
         IN  IF lines[n][kind] = "entry"
             THEN Append(before, [lines[n][record] EXCEPT !.ref = Len(before) + 1])
             ELSE before

PortsOf(services) == [k \in 1..Len(services) |-> services[k].Port]

\* C14: ParseEtherTypes reads the number token as a hexadecimal of 16 bits,
\* keeps the trimmed text behind the first "#" of an entry line as Comment
\* (empty without a "#") and the tokens from the third on as Aliases in line
\* order, whereas ParseProtocols and ParseServices read their number as a
\* decimal: a stream without a bad line and without a read error yields the
\* records written down for its lines.
C14_HexNumberAndComment ==
    output # <<>> /\ ~input.err =>
        /\ output.op = "ParseEtherTypes" /\ BadLines("ethertypes") = {} =>
             output.list =
                 Entries(input.lines, "ethertypes", "ethertype", Len(input.lines))
        /\ output.op = "ParseProtocols" /\ BadLines("protocols") = {} =>
             output.list =
                 Entries(input.lines, "protocols", "protocol", Len(input.lines))
        /\ output.op = "ParseServices" =>
             PortsOf(output.list) =
                 PortsOf(ServiceEntries(input.lines, output.p, Len(input.lines)))

\* "test 9000" and "a 10 b c # d # e ": 0x9000, and 0x10 with two aliases and
\* the comment "d # e".
C14_Witness ==
    /\ output # <<>> /\ output.op = "ParseEtherTypes"
    /\ Len(output.list) = 2
    /\ output.list[1].Name = "test" /\ output.list[1].Number = 36864
    /\ output.list[1].Comment = ""
    /\ output.list[2].Number = 16
    /\ output.list[2].Aliases = <<"b", "c">>
    /\ output.list[2].Comment = "d # e"

\* A record carrying the name, or having the port, was handed to the index
\* for the protocol; for the protocol "" any record will do.
RegisteredName(n, p) ==
    \E k \in 1..Len(smerged) :
        Carries(smerged[k], n) /\ (p = "" \/ smerged[k].ProtocolName = p)

RegisteredPort(port, p) ==
    \E k \in 1..Len(smerged) :
        smerged[k].Port = port /\ (p = "" \/ smerged[k].ProtocolName = p)

\* C15: the lookups are exact and change nothing: ByName(n, p) and
\* ByPort(port, p) return the record bound to exactly that key, with p = ""
\* for the protocol-agnostic key, and nil for a key that is absent; a lookup
\* for a protocol under which the name or port was never registered returns
\* nil although the name or port is known under another protocol or under
\* the agnostic key; the index is the same after the lookup as before.
C15_ExactLookup ==
    /\ last.op = "ServiceIndex.ByName" =>
         LET n == last.arg[1]
             p == last.arg[2]
             key == ServiceProtocol(n, p)
         IN  /\ sidx = last.pre
             /\ last.res = (IF key \in Keys(sidx.Names) THEN sidx.Names.m[key] ELSE Nil)
             /\ last.res # Nil =>
                  Carries(last.res, n) /\ (p # "" => last.res.ProtocolName = p)
             /\ "Services" \notin absorbed => (last.res # Nil <=> RegisteredName(n, p))
    /\ last.op = "ServiceIndex.ByPort" =>
         LET port == last.arg[1]
             p == last.arg[2]
             key == ServicePort(port, p)
         IN  /\ sidx = last.pre
             /\ last.res = (IF key \in Keys(sidx.Ports) THEN sidx.Ports.m[key] ELSE Nil)
             /\ last.res # Nil =>
                  last.res.Port = port /\ (p # "" => last.res.ProtocolName = p)
             /\ "Services" \notin absorbed => (last.res # Nil <=> RegisteredPort(port, p))

\* crash is known for foobar and for any protocol, and not for baz.
C15_Witness ==
    /\ last.op = "ServiceIndex.ByName"
    /\ last.arg = <<"crash", "baz">>
    /\ last.res = Nil
    /\ ServiceProtocol("crash", "") \in Keys(sidx.Names)
    /\ ServiceProtocol("crash", "foobar") \in Keys(sidx.Names)

ServiceMutators == {"ServiceIndex.Merge", "ServiceIndex.MergeIndex"}

\* C19: in a ServiceIndex made by NewServiceIndex and changed by Merge and
\* MergeIndex (of indexes made the same way), a name that is a key for a
\* protocol is a key for any protocol too, and likewise a port; Merge and
\* MergeIndex remove no key, so both key sets only grow.
C19_AgnosticKeyPresent ==
    /\ \A key \in Keys(sidx.Names) :
           ServiceProtocol(key.Name, "") \in Keys(sidx.Names)
    /\ \A key \in Keys(sidx.Ports) :
           ServicePort(key.Port, "") \in Keys(sidx.Ports)
    /\ last.op \in ServiceMutators =>
         /\ Keys(last.pre.Names) \subseteq Keys(sidx.Names)
         /\ Keys(last.pre.Ports) \subseteq Keys(sidx.Ports)

\* An index with keys for foobar absorbs one with keys for baz.
C19_Witness ==
    /\ last.op = "ServiceIndex.MergeIndex"
    /\ \E key \in Keys(last.pre.Names) : key.Protocol = "foobar"
    /\ \E key \in Keys(sidx.Ports) \ Keys(last.pre.Ports) : key.Protocol = "baz"
    /\ \E key \in Keys(sidx.Names) \ Keys(last.pre.Names) : key.Protocol = ""

\* Every name key of the index is carried by its record and every number key
\* is the number of its record.
NumberIndexConsistent(i) ==
    /\ \A n \in Keys(i.Names) : Carries(i.Names.m[n], n)
    /\ \A k \in Keys(i.Numbers) : i.Numbers.m[k].Number = k

ServiceIndexConsistent(i) ==
    /\ \A key \in Keys(i.Names) :
           /\ Carries(i.Names.m[key], key.Name)
           /\ key.Protocol # "" => i.Names.m[key].ProtocolName = key.Protocol
    /\ \A key \in Keys(i.Ports) :
           /\ i.Ports.m[key].Port = key.Port
           /\ key.Protocol # "" => i.Ports.m[key].ProtocolName = key.Protocol

\* C18: in every index made by NewXIndex and changed by Merge and MergeIndex
\* each key fits its record: a name key is the Name or one of the Aliases of
\* the record, a number key its Number; in a ServiceIndex the key (n, p) has
\* a record carrying n, of protocol p unless p is "", and the key (port, p) a
\* record of that port, of protocol p unless p is "".
C18_KeysFitRecords ==
    /\ NumberIndexConsistent(pidx)
    /\ NumberIndexConsistent(eidx)
    /\ ServiceIndexConsistent(sidx)

\* Two records in one index, one of them also under an alias.
C18_WitnessProtocol ==
    /\ last.op \in {"ProtocolIndex.Merge", "ProtocolIndex.MergeIndex"}
    /\ Cardinality(Keys(pidx.Numbers)) = 2
    /\ \E n \in Keys(pidx.Names) : pidx.Names.m[n].Name # n

C18_WitnessEtherType ==
    /\ last.op \in {"EtherTypeIndex.Merge", "EtherTypeIndex.MergeIndex"}
    /\ Cardinality(Keys(eidx.Numbers)) = 2
    /\ \E n \in Keys(eidx.Names) : eidx.Names.m[n].Name # n

C18_WitnessService ==
    /\ last.op \in ServiceMutators
    /\ Cardinality({ sidx.Names.m[key].ref : key \in Keys(sidx.Names) }) = 2
    /\ \E key \in Keys(sidx.Names) : sidx.Names.m[key].Name # key.Name

C18_Witness == C18_WitnessProtocol \/ C18_WitnessEtherType \/ C18_WitnessService

\* C20: for ProtocolIndex and EtherTypeIndex, MergeIndex of the index made
\* from a list B gives the receiver the mappings that Merge of B gives it,
\* and on a receiver made by NewXIndex of a list A the mappings of
\* NewXIndex of A followed by B; the argument index is the one made from B.
C20_MergeIndexAsMerge ==
    /\ last.op = "ProtocolIndex.MergeIndex" =>
         /\ last.arg = NumberIndexOf(NewProtocolIndex(last.from))
         /\ pidx = NumberIndexOf(ProtocolMerge(last.pre, last.from))
         /\ last.pre = NumberIndexOf(NewProtocolIndex(pmerged)) =>
              pidx = NumberIndexOf(NewProtocolIndex(pmerged \o last.from))
    /\ last.op = "EtherTypeIndex.MergeIndex" =>
         /\ last.arg = NumberIndexOf(NewEtherTypeIndex(last.from))
         /\ eidx = NumberIndexOf(EtherTypeMerge(last.pre, last.from))
         /\ last.pre = NumberIndexOf(NewEtherTypeIndex(emerged)) =>
              eidx = NumberIndexOf(NewEtherTypeIndex(emerged \o last.from))

\* The receiver was made from one record, and the list B has a record with
\* a name and the number of that record.
C20_WitnessProtocol ==
    /\ last.op = "ProtocolIndex.MergeIndex"
    /\ pmerged # <<>>
    /\ last.pre = NumberIndexOf(NewProtocolIndex(pmerged))
    /\ Keys(last.pre.Names) \cap Keys(last.arg.Names) # {}
    /\ Keys(last.pre.Numbers) \cap Keys(last.arg.Numbers) # {}

C20_WitnessEtherType ==
    /\ last.op = "EtherTypeIndex.MergeIndex"
    /\ emerged # <<>>
    /\ last.pre = NumberIndexOf(NewEtherTypeIndex(emerged))
    /\ Keys(last.pre.Names) \cap Keys(last.arg.Names) # {}
    /\ Keys(last.pre.Numbers) \cap Keys(last.arg.Numbers) # {}

C20_Witness == C20_WitnessProtocol \/ C20_WitnessEtherType

\* The index holds no key in either mapping.
NoKeys(i, names, others) == Keys(i[names]) = {} /\ Keys(i[others]) = {}

\* The most recent package-level lookup has left the builtin index in def
\* and has answered from it.
InitializedFromBuiltin(def, known) == def = known /\ last.res = Answer(known)

\* C16 as claimed: a package-level lookup that finds the default index
\* without keys, be it the zero value or an empty index value such as
\* NewXIndex(nil), initializes it from the builtin records and answers from
\* them.
C16_InitWhenEmpty ==
    /\ last.op \in ProtocolLookups /\ NoKeys(last.pre, "Names", "Numbers") =>
         InitializedFromBuiltin(Protocols, BuiltinProtocolIndex)
    /\ last.op \in ServiceLookups /\ NoKeys(last.pre, "Names", "Ports") =>
         InitializedFromBuiltin(Services, BuiltinServiceIndex)
    /\ last.op \in EtherTypeLookups /\ NoKeys(last.pre, "Names", "Numbers") =>
         InitializedFromBuiltin(EtherTypes, BuiltinEtherTypeIndex)

\* The most recent package-level lookup on the default index k found the
\* map it tests nil and has built the index, or found it non-nil and has
\* left the index alone and answered from it.
InitIffNil(k, def, tested, known) ==
    IF last.pre[tested].nil
    THEN InitializedFromBuiltin(def, known) /\ builds[k] >= 1
    ELSE CallerIndexKept(def)

\* C16 amended: a package-level lookup initializes the default index from
\* the builtin records exactly when the map it tests is nil (Numbers of
\* Protocols and EtherTypes, Names of Services), as in the zero value; an
\* index value with empty but made maps, such as NewXIndex(nil), is left as
\* it is and the lookup answers from it, with nil.
C16_InitWhenNil ==
    /\ last.op \in ProtocolLookups =>
         InitIffNil("Protocols", Protocols, "Numbers", BuiltinProtocolIndex)
    /\ last.op \in ServiceLookups =>
         InitIffNil("Services", Services, "Names", BuiltinServiceIndex)
    /\ last.op \in EtherTypeLookups =>
         InitIffNil("EtherTypes", EtherTypes, "Numbers", BuiltinEtherTypeIndex)

\* Protocols = NewProtocolIndex(nil), then ProtocolByName("tcp") is nil.
C16_WitnessProtocols ==
    /\ last.op = "ProtocolByName"
    /\ last.arg = "tcp"
    /\ last.pre = NumberIndexOf(NewProtocolIndex(<<>>))
    /\ last.res = Nil
    /\ Protocols = last.pre
    /\ builds["Protocols"] = 0

\* Services = NewServiceIndex(nil), then ServiceByName("domain", "udp") is nil.
C16_WitnessServices ==
    /\ last.op = "ServiceByName"
    /\ last.arg = <<"domain", "udp">>
    /\ last.pre = ServiceIndexOf(NewServiceIndex(<<>>))
    /\ last.res = Nil
    /\ Services = last.pre
    /\ builds["Services"] = 0

C16_Witness == C16_WitnessProtocols \/ C16_WitnessServices

\* C17: the first-use initialisation is a test and an assignment that
\* nothing synchronizes: each goroutine builds the index at most once, after
\* it has seen it uninitialized, so that two goroutines build it at most
\* twice; and when no call is entered while another is open the index is
\* built once, before the first call returns, and every call answers from
\* the builtin records.
C17_BuiltOnceWhenSerialized ==
    /\ builds["Protocols"] <= Cardinality(Goroutines)
    /\ ~calls.overlapped =>
         /\ builds["Protocols"] <= 1
         /\ \A g \in Goroutines :
                calls.of[g].n > 0 =>
                    /\ builds["Protocols"] = 1
                    /\ Protocols = BuiltinProtocolIndex
                    /\ calls.of[g].pc = "idle" =>
                         calls.of[g].res =
                             Get(BuiltinProtocolIndex.Names, calls.of[g].name)

\* Both goroutines have seen the index uninitialized, both have built it and
\* both have assigned it.
C17_Witness ==
    /\ calls.overlapped
    /\ \A g \in Goroutines :
           calls.of[g].saw /\ calls.of[g].pc \in {"read", "idle"} /\ calls.of[g].pending = {}
    /\ builds["Protocols"] = 2
    /\ Protocols = BuiltinProtocolIndex

====
